---------------------------- MODULE Spec2Model ----------------------------
(***************************************************************************)
(* Graph store of mcp-index-notes: the persistent backend                  *)
(* (SqliteGraphStore) and the in-memory backend (LiteGraphStore), both     *)
(* implementing IGraphStore, driven by the same sequence of calls.         *)
(*                                                                         *)
(* Strings are sequences of one-character strings, so that template        *)
(* literals are concatenations and String.prototype.slice is SubSeq.       *)
(* An optional value (JS undefined / SQL NULL) is the record               *)
(* [has |-> FALSE, v |-> <<>>]; a present value v is [has |-> TRUE, v].    *)
(***************************************************************************)
EXTENDS Integers, Sequences, FiniteSets, TLC

VARIABLES sq, lt, plan, last, tx, run, up

vars == <<sq, lt, plan, last, tx, run, up>>

---------------------------------------------------------------------------
(* Bounds of the model *)

MaxNodes == 2

MaxEdges == 3

MaxTypedEdges == 2

MaxGraphNodes == 3

MaxEdgeSeq == 4

MaxDepth == 3

MaxRecords == 2

MaxImportNodes == 4

MaxImportEdges == 3

MaxImportSeq == 3

MaxOnlyNodes == 5

MaxOnlyEdges == 4

MaxOnlySeq == 4

MaxTxNodes == 4

MaxTxEdges == 3

MaxTxSeq == 3

MaxLimit == 2

---------------------------------------------------------------------------
(* Optional values and strings *)

Undef == [has |-> FALSE, v |-> <<>>]

Some(x) == [has |-> TRUE, v |-> x]

\* JS `x ?? d`
Coalesce(x, d) == IF x.has THEN x.v ELSE d

EmptyStr == <<>>

NUL == <<"\\u0000">>

Min(a, b) == IF a < b THEN a ELSE b

\* String.prototype.slice(0, n) for n >= 0
Slice0(s, n) == SubSeq(s, 1, Min(n, Len(s)))

Range(f) == {f[i] : i \in DOMAIN f}

NoProps == << >>

\* the argument of no call
NoNode == [id |-> 0, label |-> <<>>, type |-> Undef, props |-> Undef]

---------------------------------------------------------------------------
(* Return values: a returned value, or a raised error *)

Ret(x) == [ok |-> TRUE, val |-> x]

Raise == [ok |-> FALSE, val |-> 0]

---------------------------------------------------------------------------
(* Persistent backend: SqliteGraphStore.                                   *)
(* sq.nodes is table graph_nodes in rowid order (rows are never deleted    *)
(* and a node INSERT never fails, so the AUTOINCREMENT id of row i is i);  *)
(* sq.edges is table graph_edges in rowid order; sq.eseq is the            *)
(* sqlite_sequence entry of graph_edges.  Column type of graph_nodes holds *)
(* NULL (Undef) or a string; column type of graph_edges is never NULL.     *)
(* Edge props are written but never read by any operation: left out.       *)

SqlEmpty == [nodes |-> <<>>, edges |-> <<>>, eseq |-> 0]

\* mapRow / the row mapping of getNodeByLabel: type NULL -> undefined
mapRow(r) == [id |-> r.id, label |-> r.label, type |-> r.type, props |-> r.props]

\* ux_graph_nodes_label_type: UNIQUE(label, type); NULLs are distinct
SqlNodeConflict(s, id, label, type) ==
    \E i \in 1..Len(s.nodes) :
        /\ i # id
        /\ s.nodes[i].label = label
        /\ type.has /\ s.nodes[i].type.has
        /\ s.nodes[i].type.v = type.v

SqlGetNodeByLabel(s, label, type) ==
    LET t == Coalesce(type, EmptyStr)
        hits == {i \in 1..Len(s.nodes) :
                    /\ s.nodes[i].label = label
                    /\ s.nodes[i].type.has
                    /\ s.nodes[i].type.v = t}
    IN IF hits = {} THEN Undef
       ELSE Some(mapRow(s.nodes[CHOOSE i \in hits : \A j \in hits : i <= j]))

SqlUpsertNode(s, node) ==
    LET props == Coalesce(node.props, NoProps)
        existing == SqlGetNodeByLabel(s, node.label, node.type)
        newId == Len(s.nodes) + 1
    IN IF node.id # 0
       THEN IF node.id \notin 1..Len(s.nodes)
            THEN [store |-> s, ret |-> Raise]
            ELSE IF SqlNodeConflict(s, node.id, node.label, node.type)
            THEN [store |-> s, ret |-> Raise]
            ELSE [store |-> [s EXCEPT !.nodes[node.id] =
                                [id |-> node.id, label |-> node.label,
                                 type |-> node.type, props |-> props]],
                  ret |-> Ret(node.id)]
       ELSE IF existing.has
            THEN [store |-> [s EXCEPT !.nodes[existing.v.id].props = props],
                  ret |-> Ret(existing.v.id)]
            ELSE IF SqlNodeConflict(s, 0, node.label, node.type)
            THEN [store |-> s, ret |-> Raise]
            ELSE [store |-> [s EXCEPT !.nodes = Append(@,
                                [id |-> newId, label |-> node.label,
                                 type |-> node.type, props |-> props])],
                  ret |-> Ret(newId)]

\* addEdge on a table without the FOREIGN KEY clauses
SqlAddEdgeNoFk(s, edge) ==
    LET t == Coalesce(edge.type, EmptyStr)
        dup == {i \in 1..Len(s.edges) :
                   /\ s.edges[i].src = edge.src
                   /\ s.edges[i].dst = edge.dst
                   /\ s.edges[i].type = t}
        newId == s.eseq + 1
    IN IF dup # {}
       THEN [store |-> [s EXCEPT !.eseq = newId],
             ret |-> Ret(s.edges[CHOOSE i \in dup : TRUE].id)]
       ELSE [store |-> [s EXCEPT !.edges = Append(@,
                            [id |-> newId, src |-> edge.src,
                             dst |-> edge.dst, type |-> t]),
                        !.eseq = newId],
             ret |-> Ret(newId)]

SqlAddEdge(s, edge) ==
    LET t == Coalesce(edge.type, EmptyStr)
        dup == {i \in 1..Len(s.edges) :
                   /\ s.edges[i].src = edge.src
                   /\ s.edges[i].dst = edge.dst
                   /\ s.edges[i].type = t}
        newId == s.eseq + 1
    IN IF dup # {}
       THEN \* ON CONFLICT IGNORE: no row, but the rowid was drawn
            [store |-> [s EXCEPT !.eseq = newId],
             ret |-> Ret(s.edges[CHOOSE i \in dup : TRUE].id)]
       ELSE IF edge.src \notin 1..Len(s.nodes) \/ edge.dst \notin 1..Len(s.nodes)
       THEN \* FOREIGN KEY constraint failed
            [store |-> s, ret |-> Raise]
       ELSE [store |-> [s EXCEPT !.edges = Append(@,
                            [id |-> newId, src |-> edge.src,
                             dst |-> edge.dst, type |-> t]),
                        !.eseq = newId],
             ret |-> Ret(newId)]

\* migrate, run by the constructor on every open.  On a store whose tables
\* and indexes exist, the CREATE ... IF NOT EXISTS statements do nothing and
\* no edge has a NULL type; what runs is
\*   UPDATE graph_nodes SET type='' WHERE type IS NULL
\* under ux_graph_nodes_label_type.  db.exec stops at the failing statement.
migrate(s) ==
    LET norm == [i \in 1..Len(s.nodes) |->
                    IF s.nodes[i].type.has THEN s.nodes[i]
                    ELSE [s.nodes[i] EXCEPT !.type = Some(EmptyStr)]]
        clash == \E i, j \in 1..Len(norm) :
                     /\ i # j
                     /\ ~s.nodes[i].type.has
                     /\ norm[i].label = norm[j].label
                     /\ norm[i].type = norm[j].type
    IN IF clash THEN [store |-> s, ret |-> Raise]
       ELSE [store |-> [s EXCEPT !.nodes = norm], ret |-> Ret(0)]

SqlStats(s) == [nodes |-> Len(s.nodes), edges |-> Len(s.edges)]

---------------------------------------------------------------------------
(* In-memory backend: LiteGraphStore.                                      *)
(* lt.nodes is the Map id -> node (ids are handed out 1, 2, ... and never  *)
(* removed, so it is a sequence); lt.labelIndex is the Map key -> id.      *)

LiteEmpty == [nodes |-> <<>>, labelIndex |-> << >>, edges |-> <<>>,
              nextNodeId |-> 1, nextEdgeId |-> 1]

keyFor(label, type) == label \o NUL \o Coalesce(type, EmptyStr)

\* Map.prototype.set
MapSet(m, k, v) == [x \in DOMAIN m \cup {k} |-> IF x = k THEN v ELSE m[x]]

\* a labelIndex that never finds a key
IndexMiss(l, k) == 0

\* Map.prototype.get on labelIndex: 0 stands for undefined
IndexGet(l, k) == IF k \in DOMAIN l.labelIndex THEN l.labelIndex[k] ELSE 0

LiteGetNodeByLabel(l, label, type) ==
    LET id == IndexGet(l, keyFor(label, type))
    IN IF id # 0 THEN Some(l.nodes[id]) ELSE Undef

\* upsertNode answering an unknown id with the id instead of an error
LiteUpsertNodeSilent(l, node) ==
    LET idxKey == keyFor(node.label, node.type)
        id == IndexGet(l, idxKey)
        newId == l.nextNodeId
    IN IF node.id # 0
       THEN IF node.id \notin 1..Len(l.nodes)
            THEN [store |-> l, ret |-> Ret(node.id)]
            ELSE [store |-> [l EXCEPT
                      !.nodes[node.id] =
                          [id |-> @.id, label |-> node.label, type |-> node.type,
                           props |-> Coalesce(node.props, @.props)],
                      !.labelIndex = MapSet(@, idxKey, node.id)],
                  ret |-> Ret(node.id)]
       ELSE IF id # 0
            THEN [store |-> [l EXCEPT !.nodes[id].props = Coalesce(node.props, @)],
                  ret |-> Ret(id)]
            ELSE [store |-> [l EXCEPT
                      !.nodes = Append(@, [id |-> newId, label |-> node.label,
                                           type |-> node.type,
                                           props |-> Coalesce(node.props, NoProps)]),
                      !.labelIndex = MapSet(@, idxKey, newId),
                      !.nextNodeId = newId + 1],
                  ret |-> Ret(newId)]

LiteUpsertNode(l, node) ==
    LET idxKey == keyFor(node.label, node.type)
        id == IndexGet(l, idxKey)
        newId == l.nextNodeId
    IN IF node.id # 0
       THEN IF node.id \notin 1..Len(l.nodes)
            THEN [store |-> l, ret |-> Raise]
            ELSE [store |-> [l EXCEPT
                      !.nodes[node.id] =
                          [id |-> @.id, label |-> node.label, type |-> node.type,
                           props |-> Coalesce(node.props, @.props)],
                      !.labelIndex = MapSet(@, idxKey, node.id)],
                  ret |-> Ret(node.id)]
       ELSE IF id # 0
            THEN [store |-> [l EXCEPT !.nodes[id].props = Coalesce(node.props, @)],
                  ret |-> Ret(id)]
            ELSE [store |-> [l EXCEPT
                      !.nodes = Append(@, [id |-> newId, label |-> node.label,
                                           type |-> node.type,
                                           props |-> Coalesce(node.props, NoProps)]),
                      !.labelIndex = MapSet(@, idxKey, newId),
                      !.nextNodeId = newId + 1],
                  ret |-> Ret(newId)]

\* addEdge comparing the stored and the given type without `?? ''`
LiteAddEdgeRawType(l, edge) ==
    LET dup == {i \in 1..Len(l.edges) :
                   /\ l.edges[i].src = edge.src
                   /\ l.edges[i].dst = edge.dst
                   /\ l.edges[i].type = edge.type}
        id == l.nextEdgeId
    IN IF dup # {}
       THEN [store |-> l,
             ret |-> Ret(l.edges[CHOOSE i \in dup : \A j \in dup : i <= j].id)]
       ELSE [store |-> [l EXCEPT
                 !.edges = Append(@, [id |-> id, src |-> edge.src,
                                      dst |-> edge.dst, type |-> edge.type]),
                 !.nextEdgeId = id + 1],
             ret |-> Ret(id)]

\* addEdge without `this.nextEdgeId++`
LiteAddEdgeSameId(l, edge) ==
    LET dup == {i \in 1..Len(l.edges) :
                   /\ l.edges[i].src = edge.src
                   /\ l.edges[i].dst = edge.dst
                   /\ Coalesce(l.edges[i].type, EmptyStr) = Coalesce(edge.type, EmptyStr)}
        id == l.nextEdgeId
    IN IF dup # {}
       THEN [store |-> l,
             ret |-> Ret(l.edges[CHOOSE i \in dup : \A j \in dup : i <= j].id)]
       ELSE [store |-> [l EXCEPT
                 !.edges = Append(@, [id |-> id, src |-> edge.src,
                                      dst |-> edge.dst, type |-> edge.type])],
             ret |-> Ret(id)]

LiteAddEdge(l, edge) ==
    LET dup == {i \in 1..Len(l.edges) :
                   /\ l.edges[i].src = edge.src
                   /\ l.edges[i].dst = edge.dst
                   /\ Coalesce(l.edges[i].type, EmptyStr) = Coalesce(edge.type, EmptyStr)}
        id == l.nextEdgeId
    IN IF dup # {}
       THEN [store |-> l,
             ret |-> Ret(l.edges[CHOOSE i \in dup : \A j \in dup : i <= j].id)]
       ELSE [store |-> [l EXCEPT
                 !.edges = Append(@, [id |-> id, src |-> edge.src,
                                      dst |-> edge.dst, type |-> edge.type]),
                 !.nextEdgeId = id + 1],
             ret |-> Ret(id)]

LiteStats(l) == [nodes |-> Len(l.nodes), edges |-> Len(l.edges)]

---------------------------------------------------------------------------
(* Breadth-first traversal.  The two backends carry the same traversal     *)
(* code (bfsTraverse, bfsLiteTraverse) over their own edge enumeration.    *)
(* The visitor callbacks are the records                                   *)
(*   [kind |-> "collect", limit |-> n]   (neighbors)                       *)
(*   [kind |-> "find", to |-> id]        (path)                            *)
(* and acc is what the callback closes over: collected, prev, found.       *)

RECURSIVE InsertSorted(_, _)
InsertSorted(seq, x) ==
    IF seq = <<>> THEN <<x>>
    ELSE IF x <= Head(seq) THEN <<x>> \o seq
    ELSE <<Head(seq)>> \o InsertSorted(Tail(seq), x)

RECURSIVE SortAsc(_)
SortAsc(seq) == IF seq = <<>> THEN <<>> ELSE InsertSorted(SortAsc(Tail(seq)), Head(seq))

RECURSIVE DstsOf(_, _)
\* the dst of the rows with the given src, in row order
DstsOf(edges, src) ==
    IF edges = <<>> THEN <<>>
    ELSE IF Head(edges).src = src
         THEN <<Head(edges).dst>> \o DstsOf(Tail(edges), src)
         ELSE DstsOf(Tail(edges), src)

\* SELECT e.dst FROM graph_edges e WHERE e.src=?  has no ORDER BY: the rows
\* come in the order of the index the planner picks, the covering
\* UNIQUE(src,dst,type) index (ascending dst) or ix_graph_edges_src (rowid).
sqliteNeighborIds(s, p, src) ==
    IF p = "covering" THEN SortAsc(DstsOf(s.edges, src)) ELSE DstsOf(s.edges, src)

liteNeighborIds(l, src) == DstsOf(l.edges, src)

\* prev.set(fromId, null): a predecessor is Some(id), and Undef is the null
\* of the start node, which no id equals (0 is an id like any other here)
AccInit(fromId) == [collected |-> <<>>, prev |-> (fromId :> Undef), found |-> FALSE]

\* the visit callbacks of neighbors and of bfsPath / path
Visit(visitor, acc, dst, src) ==
    IF visitor.kind = "collect"
    THEN LET c == Append(acc.collected, dst)
         IN [acc |-> [acc EXCEPT !.collected = c], cont |-> Len(c) < visitor.limit]
    ELSE LET pv == IF dst \notin DOMAIN acc.prev THEN acc.prev @@ (dst :> Some(src))
                   ELSE acc.prev
         IN IF dst = visitor.to
            THEN [acc |-> [acc EXCEPT !.prev = pv, !.found = TRUE], cont |-> FALSE]
            ELSE [acc |-> [acc EXCEPT !.prev = pv], cont |-> TRUE]

RECURSIVE ScanNeighRevisit(_, _, _, _, _)
\* the loop over neigh without `if (visited.has(dst)) continue`
ScanNeighRevisit(neigh, i, src, visitor, st) ==
    IF i > Len(neigh) THEN st
    ELSE LET r == Visit(visitor, st.acc, neigh[i], src)
             st1 == [visited |-> st.visited \cup {neigh[i]},
                     next |-> Append(st.next, neigh[i]),
                     acc |-> r.acc, stop |-> ~r.cont]
         IN IF st1.stop THEN st1 ELSE ScanNeighRevisit(neigh, i + 1, src, visitor, st1)

RECURSIVE ScanNeigh(_, _, _, _, _)
\* for (const dst of neigh) { ... }
ScanNeigh(neigh, i, src, visitor, st) ==
    IF i > Len(neigh) THEN st
    ELSE IF neigh[i] \in st.visited THEN ScanNeigh(neigh, i + 1, src, visitor, st)
    ELSE LET r == Visit(visitor, st.acc, neigh[i], src)
             st1 == [visited |-> st.visited \cup {neigh[i]},
                     next |-> Append(st.next, neigh[i]),
                     acc |-> r.acc, stop |-> ~r.cont]
         IN IF st1.stop THEN st1 ELSE ScanNeigh(neigh, i + 1, src, visitor, st1)

RECURSIVE step(_, _, _, _, _)
\* for (const id of ids) { ... }
step(adj, ids, i, visitor, st) ==
    IF i > Len(ids) THEN st
    ELSE LET st1 == ScanNeigh(adj[ids[i]], 1, ids[i], visitor, st)
         IN IF st1.stop THEN st1 ELSE step(adj, ids, i + 1, visitor, st1)

RECURSIVE Rounds(_, _, _, _, _, _)
\* for (let d = 0; d < depth && frontier.length; d++) { ... }
Rounds(adj, d, depth, frontier, visitor, st) ==
    IF ~(d < depth /\ Len(frontier) > 0) THEN st.acc
    ELSE LET r == step(adj, frontier, 1, visitor, [st EXCEPT !.next = <<>>])
         IN IF r.stop THEN r.acc
            ELSE Rounds(adj, d + 1, depth, r.next, visitor, r)

\* every id an edge or the call mentions
IdsOf(edges, extra) ==
    {edges[i].src : i \in 1..Len(edges)} \cup {edges[i].dst : i \in 1..Len(edges)} \cup extra

Traverse(adj, startId, depth, visitor) ==
    Rounds(adj, 0, depth, <<startId>>, visitor,
           [visited |-> {startId}, next |-> <<>>, acc |-> AccInit(startId), stop |-> FALSE])

\* bfsTraverse with the start id left out of the visited set
bfsTraverseUnseeded(s, p, startId, depth, visitor) ==
    Rounds([i \in IdsOf(s.edges, {startId}) |-> sqliteNeighborIds(s, p, i)],
           0, depth, <<startId>>, visitor,
           [visited |-> {}, next |-> <<>>, acc |-> AccInit(startId), stop |-> FALSE])

bfsTraverse(s, p, startId, depth, visitor) ==
    Traverse([i \in IdsOf(s.edges, {startId}) |-> sqliteNeighborIds(s, p, i)],
             startId, depth, visitor)

\* bfsLiteTraverse running one round too many (d <= depth)
bfsLiteTraverseDeep(l, startId, depth, visitor) ==
    Traverse([i \in IdsOf(l.edges, {startId}) |-> liteNeighborIds(l, i)],
             startId, depth + 1, visitor)

bfsLiteTraverse(l, startId, depth, visitor) ==
    Traverse([i \in IdsOf(l.edges, {startId}) |-> liteNeighborIds(l, i)],
             startId, depth, visitor)

RECURSIVE WalkPrev(_, _)
\* while (p != null) { pathIds.push(p); p = prev.get(p)!; }  then reverse()
\* p is Some(id), or Undef for null and for the undefined of a missing key
WalkPrev(prev, p) ==
    IF ~p.has THEN <<>>
    ELSE Append(WalkPrev(prev, IF p.v \in DOMAIN prev THEN prev[p.v] ELSE Undef), p.v)

\* a node reference: a number, or a {label, type} descriptor
ById(id) == [byId |-> TRUE, id |-> id, label |-> EmptyStr, type |-> Undef]

ByLabel(label, type) == [byId |-> FALSE, id |-> 0, label |-> label, type |-> type]

\* 0 stands for null / undefined (both are falsy, like the id 0)
resolveNodeId(s, ref) ==
    IF ref.byId THEN ref.id
    ELSE LET found == SqlGetNodeByLabel(s, ref.label, ref.type)
         IN IF found.has THEN found.v.id ELSE 0

LiteResolve(l, ref) ==
    IF ref.byId THEN ref.id
    ELSE LET found == LiteGetNodeByLabel(l, ref.label, ref.type)
         IN IF found.has THEN found.v.id ELSE 0

RECURSIVE KeepExisting(_, _)
\* ids.map(id => byId.get(id)).filter(Boolean) / liteNodesByIds
KeepExisting(nodes, ids) ==
    IF ids = <<>> THEN <<>>
    ELSE IF Head(ids) \in 1..Len(nodes)
         THEN <<nodes[Head(ids)]>> \o KeepExisting(nodes, Tail(ids))
         ELSE KeepExisting(nodes, Tail(ids))

nodesByIds(s, ids) == [i \in 1..Len(KeepExisting(s.nodes, ids)) |-> mapRow(KeepExisting(s.nodes, ids)[i])]

liteNodesByIds(l, ids) == KeepExisting(l.nodes, ids)

SqlNeighbors(s, p, ref, depth, limit) ==
    LET startId == resolveNodeId(s, ref)
    IN IF startId = 0 THEN Ret(<<>>)
       ELSE Ret(nodesByIds(s, bfsTraverse(s, p, startId, depth,
                    [kind |-> "collect", limit |-> limit]).collected))

LiteNeighbors(l, ref, depth, limit) ==
    LET startId == LiteResolve(l, ref)
    IN IF startId = 0 THEN Ret(<<>>)
       ELSE Ret(liteNodesByIds(l, bfsLiteTraverse(l, startId, depth,
                    [kind |-> "collect", limit |-> limit]).collected))

bfsPath(s, p, fromId, toId, maxDepth) ==
    LET acc == bfsTraverse(s, p, fromId, maxDepth + 1, [kind |-> "find", to |-> toId])
    IN IF ~acc.found THEN <<>> ELSE WalkPrev(acc.prev, Some(toId))

\* path maps every id of the route with mapRow(byId.get(id)!): a route id
\* without a row makes mapRow read a field of undefined, a TypeError
SqlPath(s, p, from, to, maxDepth) ==
    LET fromId == resolveNodeId(s, from)
        toId == resolveNodeId(s, to)
        ids == bfsPath(s, p, fromId, toId, maxDepth)
    IN IF fromId = 0 \/ toId = 0 THEN Ret(<<>>)
       ELSE IF ids = <<>> THEN Ret(<<>>)
       ELSE IF \E i \in 1..Len(ids) : ids[i] \notin 1..Len(s.nodes) THEN Raise
       ELSE Ret([i \in 1..Len(ids) |-> mapRow(s.nodes[ids[i]])])

LitePath(l, from, to, maxDepth) ==
    LET fromId == LiteResolve(l, from)
        toId == LiteResolve(l, to)
        acc == bfsLiteTraverse(l, fromId, maxDepth + 1, [kind |-> "find", to |-> toId])
    IN IF fromId = 0 \/ toId = 0 THEN Ret(<<>>)
       ELSE IF ~acc.found THEN Ret(<<>>)
       ELSE Ret(liteNodesByIds(l, WalkPrev(acc.prev, Some(toId))))

---------------------------------------------------------------------------
(* importFromNotes.  A note is [id, key, created_at, tags, metadata]; id,  *)
(* created_at, tags and metadata are optional.                             *)

Digits == <<"0", "1", "2", "3", "4", "5", "6", "7", "8", "9">>

RECURSIVE NumStr(_)
\* a number inside a template literal
NumStr(n) ==
    IF n < 10 THEN <<Digits[n + 1]>>
    ELSE NumStr(n \div 10) \o <<Digits[(n % 10) + 1]>>

StrNote == <<"n", "o", "t", "e">>

StrKey == <<"k", "e", "y">>

StrTag == <<"t", "a", "g">>

StrHasKey == <<"h", "a", "s", "_", "k", "e", "y">>

StrHasTag == <<"h", "a", "s", "_", "t", "a", "g">>

Colon == <<":">>

\* the note label carrying the whole timestamp
NoteLabelFullDate(n) ==
    StrNote \o Colon \o (IF n.id.has THEN NumStr(n.id.v) ELSE n.key) \o Colon
            \o Coalesce(n.created_at, EmptyStr)

\* `note:${n.id ?? n.key}:${(n.created_at || '').slice(0,10)}`
NoteLabel(n) ==
    StrNote \o Colon \o (IF n.id.has THEN NumStr(n.id.v) ELSE n.key) \o Colon
            \o Slice0(Coalesce(n.created_at, EmptyStr), 10)

\* `key:${n.key}`
KeyLabel(n) == StrKey \o Colon \o n.key

\* `tag:${t}`
TagLabel(t) == StrTag \o Colon \o t

NoteNode(n) ==
    [id |-> 0, label |-> NoteLabel(n), type |-> Some(StrNote),
     props |-> Some([key |-> n.key, tags |-> Coalesce(n.tags, <<>>),
                    metadata |-> Coalesce(n.metadata, NoProps)])]

KeyNode(n) == [id |-> 0, label |-> KeyLabel(n), type |-> Some(StrKey), props |-> Undef]

\* the tag node filed under the type of key nodes
TagNodeAsKey(t) == [id |-> 0, label |-> TagLabel(t), type |-> Some(StrKey), props |-> Undef]

TagNode(t) == [id |-> 0, label |-> TagLabel(t), type |-> Some(StrTag), props |-> Undef]

\* one call inside the import: once a call has raised, the rest is skipped
Then(r, next) == IF r.ret.ok THEN next ELSE r

RECURSIVE SqlImportTags(_, _, _)
SqlImportTags(s, noteNodeId, tags) ==
    IF tags = <<>> THEN [store |-> s, ret |-> Ret(0)]
    ELSE LET t == SqlUpsertNode(s, TagNode(Head(tags)))
             e == SqlAddEdge(t.store, [src |-> noteNodeId, dst |-> t.ret.val,
                                       type |-> Some(StrHasTag)])
         IN Then(t, Then(e, SqlImportTags(e.store, noteNodeId, Tail(tags))))

RECURSIVE SqlImportNotes(_, _)
SqlImportNotes(s, notes) ==
    IF notes = <<>> THEN [store |-> s, ret |-> Ret(0)]
    ELSE LET n == Head(notes)
             a == SqlUpsertNode(s, NoteNode(n))
             k == SqlUpsertNode(a.store, KeyNode(n))
             e == SqlAddEdge(k.store, [src |-> a.ret.val, dst |-> k.ret.val,
                                       type |-> Some(StrHasKey)])
             g == SqlImportTags(e.store, a.ret.val, Coalesce(n.tags, <<>>))
         IN Then(a, Then(k, Then(e, Then(g, SqlImportNotes(g.store, Tail(notes))))))

\* the loop runs inside db.transaction: an error rolls the store back
SqlImportFromNotes(s, notes) ==
    LET r == SqlImportNotes(s, notes)
    IN IF r.ret.ok THEN [store |-> r.store, ret |-> Ret(SqlStats(r.store))]
       ELSE [store |-> s, ret |-> Raise]

RECURSIVE LiteImportTags(_, _, _)
LiteImportTags(l, noteNodeId, tags) ==
    IF tags = <<>> THEN [store |-> l, ret |-> Ret(0)]
    ELSE LET t == LiteUpsertNode(l, TagNode(Head(tags)))
             e == LiteAddEdge(t.store, [src |-> noteNodeId, dst |-> t.ret.val,
                                        type |-> Some(StrHasTag)])
         IN Then(t, Then(e, LiteImportTags(e.store, noteNodeId, Tail(tags))))

RECURSIVE LiteImportNotes(_, _)
LiteImportNotes(l, notes) ==
    IF notes = <<>> THEN [store |-> l, ret |-> Ret(0)]
    ELSE LET n == Head(notes)
             a == LiteUpsertNode(l, NoteNode(n))
             k == LiteUpsertNode(a.store, KeyNode(n))
             e == LiteAddEdge(k.store, [src |-> a.ret.val, dst |-> k.ret.val,
                                        type |-> Some(StrHasKey)])
             g == LiteImportTags(e.store, a.ret.val, Coalesce(n.tags, <<>>))
         IN Then(a, Then(k, Then(e, Then(g, LiteImportNotes(g.store, Tail(notes))))))

\* no transaction: what was stored before an error stays stored
LiteImportFromNotes(l, notes) ==
    LET r == LiteImportNotes(l, notes)
    IN IF r.ret.ok THEN [store |-> r.store, ret |-> Ret(LiteStats(r.store))]
       ELSE [store |-> r.store, ret |-> Raise]

---------------------------------------------------------------------------
(* The calls.  Every call is replayed against both backends; last names    *)
(* the call made last.  plan is the index the query planner of the build   *)
(* reads graph_edges through.  tx is the transaction of an import that is  *)
(* under way in the persistent backend: work is the store as the           *)
(* transaction sees it, rest the records still to process.                 *)

NoTx == [active |-> FALSE, work |-> SqlEmpty, notes |-> <<>>, rest |-> <<>>]

\* run is the neighbors or path call that is under way, with the locals of
\* the traversal: no call is under way
NoRun ==
    [pc |-> "idle", op |-> "none", backend |-> "none", from |-> 0, to |-> 0,
     depth |-> 0, limit |-> 0, d |-> 0, frontier |-> <<>>,
     i |-> 1, st |-> [visited |-> {}, next |-> <<>>, acc |-> AccInit(0), stop |-> FALSE],
     pushed |-> <<>>, p |-> Undef, pathIds |-> <<>>, result |-> Ret(<<>>)]

\* up holds the upsertNode calls of the callers that share the persistent
\* store, each between its statements: no caller has a call under way
Callers == {1, 2}

NoCall == [pc |-> "idle", node |-> NoNode, existing |-> 0, ret |-> Raise]

NoCalls == [c \in Callers |-> NoCall]

Init ==
    /\ sq = SqlEmpty
    /\ lt = LiteEmpty
    /\ plan \in {"covering", "rowid"}
    /\ last = "new"
    /\ tx = NoTx
    /\ run = NoRun
    /\ up = NoCalls

UpsertNode(node) ==
    /\ sq' = SqlUpsertNode(sq, node).store
    /\ lt' = LiteUpsertNode(lt, node).store
    /\ last' = "upsertNode"
    /\ UNCHANGED <<plan, tx, run, up>>

AddEdge(edge) ==
    /\ sq' = SqlAddEdge(sq, edge).store
    /\ lt' = LiteAddEdge(lt, edge).store
    /\ last' = "addEdge"
    /\ UNCHANGED <<plan, tx, run, up>>

ImportFromNotes(notes) ==
    /\ sq' = SqlImportFromNotes(sq, notes).store
    /\ lt' = LiteImportFromNotes(lt, notes).store
    /\ last' = "importFromNotes"
    /\ UNCHANGED <<plan, tx, run, up>>

\* the stores a call leads to stay within the bounds
Fits(maxN, maxE) ==
    /\ Len(sq'.nodes) <= maxN /\ Len(lt'.nodes) <= maxN
    /\ Len(sq'.edges) <= maxE /\ Len(lt'.edges) <= maxE
    /\ sq'.eseq <= MaxEdgeSeq

---------------------------------------------------------------------------
(* Inputs *)

LabelA == <<"a">>

LabelB == <<"b">>

Labels == {LabelA, LabelB}

TypeT == <<"t">>

Types == {Undef, Some(EmptyStr), Some(TypeT)}

\* 0 is a call without id; MaxNodes + 1 never names a node
IdInputs == 0..(MaxNodes + 1)

NodeInputs ==
    {[id |-> i, label |-> lb, type |-> t, props |-> Undef] :
        i \in IdInputs, lb \in Labels, t \in Types}

(* Node calls alone *)
NextNode == \E node \in NodeInputs : UpsertNode(node) /\ Fits(MaxNodes, 0)

SpecNode == Init /\ [][NextNode]_vars

(* Typed edges between a few nodes *)
NewNodeInputs ==
    {[id |-> 0, label |-> lb, type |-> Some(TypeT), props |-> Undef] : lb \in Labels}

EdgeInputs ==
    {[src |-> a, dst |-> b, type |-> t] :
        a \in 1..(MaxNodes + 1), b \in 1..(MaxNodes + 1), t \in Types}

NextEdge ==
    \/ \E node \in NewNodeInputs : UpsertNode(node) /\ Fits(MaxNodes, MaxTypedEdges)
    \/ \E edge \in EdgeInputs : AddEdge(edge) /\ Fits(MaxNodes, MaxTypedEdges)

SpecEdge == Init /\ [][NextEdge]_vars

(* Graphs to traverse.  neighbors and path are functions of the store:   *)
(* the store starts with nodes n1 .. nk already upserted, in this order,   *)
(* and the edges are added one call at a time.                             *)
GraphNode(i) ==
    [id |-> 0, label |-> <<"n">> \o NumStr(i), type |-> Some(TypeT), props |-> Undef]

RECURSIVE SqlWithNodes(_)
SqlWithNodes(k) ==
    IF k = 0 THEN SqlEmpty ELSE SqlUpsertNode(SqlWithNodes(k - 1), GraphNode(k)).store

RECURSIVE LiteWithNodes(_)
LiteWithNodes(k) ==
    IF k = 0 THEN LiteEmpty ELSE LiteUpsertNode(LiteWithNodes(k - 1), GraphNode(k)).store

GraphIds == 1..MaxGraphNodes

GraphLabels == {GraphNode(i).label : i \in GraphIds}

GraphEdgeInputs == {[src |-> a, dst |-> b, type |-> Undef] : a \in GraphIds, b \in GraphIds}

InitGraph ==
    /\ \E k \in 0..MaxGraphNodes : sq = SqlWithNodes(k) /\ lt = LiteWithNodes(k)
    /\ plan \in {"covering", "rowid"}
    /\ last = "new"
    /\ tx = NoTx
    /\ run = NoRun
    /\ up = NoCalls

NextGraph == \E edge \in GraphEdgeInputs : AddEdge(edge) /\ Fits(MaxGraphNodes, MaxEdges)

SpecGraph == InitGraph /\ [][NextGraph]_vars

(* Imports.  Records share one key; they come with or without id, with   *)
(* or without created_at (a timestamp longer than its day) and with or      *)
(* without tags (a tag may come twice).  Id-qualified upserts rewrite      *)
(* nodes between imports.                                                  *)
KeyK == <<"k">>

Day == <<"2", "0", "2", "4", "-", "0", "1", "-", "0", "1">>

DateA == Day \o <<"T", "1">>

TagX == <<"x">>

MetaA == [a |-> 1]

\* records without metadata, and one that carries some
NoteInputs ==
    {[id |-> i, key |-> KeyK, created_at |-> c, tags |-> t, metadata |-> Undef] :
        i \in {Undef, Some(1)},
        c \in {Undef, Some(DateA)},
        t \in {Undef, Some(<<TagX, TagX>>)}}
    \cup {[id |-> Some(1), key |-> KeyK, created_at |-> Some(DateA),
           tags |-> Undef, metadata |-> Some(MetaA)]}

NoteLists == UNION {[1..k -> NoteInputs] : k \in 0..MaxRecords}

RelabelInputs ==
    {[id |-> i, label |-> lb, type |-> Some(StrKey), props |-> Undef] :
        i \in {1}, lb \in {LabelA, StrKey \o Colon \o KeyK}}

FitsImport ==
    /\ Len(sq'.nodes) <= MaxImportNodes /\ Len(lt'.nodes) <= MaxImportNodes
    /\ Len(sq'.edges) <= MaxImportEdges /\ Len(lt'.edges) <= MaxImportEdges
    /\ sq'.eseq <= MaxImportSeq

NextImport ==
    \/ \E notes \in NoteLists : ImportFromNotes(notes) /\ FitsImport
    \/ \E node \in RelabelInputs : UpsertNode(node) /\ FitsImport

\* imports never read graph_edges by src: one query plan is enough
InitImport == Init /\ plan = "covering"

SpecImport == InitImport /\ [][NextImport]_vars

---------------------------------------------------------------------------
(* Reference notions for the traversal claims: hop distance over the       *)
(* stored edges, defined without the traversal code.                       *)

EdgeSet(edges) == {<<edges[i].src, edges[i].dst>> : i \in 1..Len(edges)}

RECURSIVE Within(_, _, _)
\* the ids at most k hops from start
Within(E, start, k) ==
    IF k <= 0 THEN {start}
    ELSE LET W == Within(E, start, k - 1)
         IN W \cup {e[2] : e \in {x \in E : x[1] \in W}}

\* no id is further than this from any other
Far(E) == Cardinality(E) + 1

Reachable(E, a, b) == b \in Within(E, a, Far(E))

\* the hop distance from a to b, for b reachable from a
Dist(E, a, b) == CHOOSE k \in 0..Far(E) :
                    /\ b \in Within(E, a, k)
                    /\ \A j \in 0..(k - 1) : b \notin Within(E, a, j)

IdsIn(nodes) == {nodes[i].id : i \in 1..Len(nodes)}

NoRepeat(seq) == \A i, j \in 1..Len(seq) : i # j => seq[i] # seq[j]

\* the queries the traversal claims range over
DefaultLimit == 50

StartRefs == {ById(i) : i \in GraphIds} \cup {ByLabel(lb, Some(TypeT)) : lb \in GraphLabels}

Depths == 0..MaxDepth

Limits == (0..MaxLimit) \cup {DefaultLimit}

IdRefs == {ById(i) : i \in GraphIds}

\* the ids of a returned list of nodes, in order
IdsSeq(nodes) == [i \in 1..Len(nodes) |-> nodes[i].id]

\* a route: every consecutive pair is a stored edge
IsRoute(E, ids) == \A i \in 1..(Len(ids) - 1) : <<ids[i], ids[i + 1]>> \in E

---------------------------------------------------------------------------
(* C7.  BFS depth bound: every node neighbors(start, d, limit) returns is  *)
(* at least 1 and at most d hops from start over the stored edges, in both *)
(* backends, for every limit; with d = 0 nothing is returned.              *)

DepthBoundOf(r, E, st, d) ==
    /\ r.ok
    /\ IdsIn(r.val) \subseteq (Within(E, st, d) \ {st})
    /\ (d = 0 => r.val = <<>>)

C7_DepthBound ==
    \A ref \in StartRefs, d \in Depths, k \in Limits :
        /\ DepthBoundOf(SqlNeighbors(sq, plan, ref, d, k), EdgeSet(sq.edges),
                        resolveNodeId(sq, ref), d)
        /\ DepthBoundOf(LiteNeighbors(lt, ref, d, k), EdgeSet(lt.edges),
                        LiteResolve(lt, ref), d)

\* the chain 1 -> 2 -> 3 is stored: depth 1 stops at n2, depth 2 reaches n3
C7_Witness ==
    /\ last = "addEdge"
    /\ {<<1, 2>>, <<2, 3>>} \subseteq EdgeSet(sq.edges)
    /\ <<1, 3>> \notin EdgeSet(sq.edges) /\ <<1, 3>> \notin EdgeSet(lt.edges)
    /\ IdsIn(SqlNeighbors(sq, plan, ById(1), 1, DefaultLimit).val) = {2}
    /\ IdsIn(LiteNeighbors(lt, ById(1), 1, DefaultLimit).val) = {2}
    /\ 3 \in IdsIn(SqlNeighbors(sq, plan, ById(1), 2, DefaultLimit).val)
    /\ 3 \in IdsIn(LiteNeighbors(lt, ById(1), 2, DefaultLimit).val)

---------------------------------------------------------------------------
(* C9.  The list neighbors returns holds no node twice and never the start *)
(* node, on every graph, self-loops and cycles through the start included. *)

DistinctOf(r, st) == r.ok /\ NoRepeat(IdsSeq(r.val)) /\ st \notin IdsIn(r.val)

C9_DistinctNoStart ==
    \A ref \in StartRefs, d \in Depths, k \in Limits :
        /\ DistinctOf(SqlNeighbors(sq, plan, ref, d, k), resolveNodeId(sq, ref))
        /\ DistinctOf(LiteNeighbors(lt, ref, d, k), LiteResolve(lt, ref))

\* a self-loop on the start and a cycle through it, n3 reached by two routes
C9_Witness ==
    /\ last = "addEdge"
    /\ \/ {<<1, 1>>, <<1, 2>>, <<2, 1>>} \subseteq EdgeSet(sq.edges)
       \/ {<<1, 2>>, <<1, 3>>, <<2, 3>>} \subseteq EdgeSet(sq.edges)
    /\ EdgeSet(lt.edges) = EdgeSet(sq.edges)
    /\ Len(SqlNeighbors(sq, plan, ById(1), MaxDepth, DefaultLimit).val) >= 1
    /\ IdsIn(LiteNeighbors(lt, ById(1), MaxDepth, DefaultLimit).val)
          = Within(EdgeSet(lt.edges), 1, MaxDepth) \ {1}

---------------------------------------------------------------------------
(* C8.  Limit bound: neighbors(start, depth, limit) returns at most limit  *)
(* nodes, for every limit the store API accepts, limit = 0 included.       *)

C8_LimitBound ==
    \A ref \in StartRefs, d \in Depths, k \in Limits :
        /\ Len(SqlNeighbors(sq, plan, ref, d, k).val) <= k
        /\ Len(LiteNeighbors(lt, ref, d, k).val) <= k

---------------------------------------------------------------------------
(* C5.  Path optimality: for existing nodes from # to whose hop distance k *)
(* is at most maxDepth, path(from, to, maxDepth) returns k + 1 nodes, from *)
(* first, to last, every consecutive pair joined by a stored edge.         *)

OptimalOf(r, E, a, b) ==
    /\ r.ok
    /\ Len(r.val) = Dist(E, a, b) + 1
    /\ r.val[1].id = a
    /\ r.val[Len(r.val)].id = b
    /\ IsRoute(E, IdsSeq(r.val))

C5_PathOptimal ==
    \A a \in GraphIds, b \in GraphIds, m \in Depths :
        /\ (/\ a # b /\ {a, b} \subseteq 1..Len(sq.nodes)
            /\ Reachable(EdgeSet(sq.edges), a, b)
            /\ Dist(EdgeSet(sq.edges), a, b) <= m)
           => OptimalOf(SqlPath(sq, plan, ById(a), ById(b), m), EdgeSet(sq.edges), a, b)
        /\ (/\ a # b /\ {a, b} \subseteq 1..Len(lt.nodes)
            /\ Reachable(EdgeSet(lt.edges), a, b)
            /\ Dist(EdgeSet(lt.edges), a, b) <= m)
           => OptimalOf(LitePath(lt, ById(a), ById(b), m), EdgeSet(lt.edges), a, b)

---------------------------------------------------------------------------
(* C6.  Path bound: when no route of at most maxDepth edges leads from     *)
(* from to to, path(from, to, maxDepth) returns the empty list.            *)

C6_PathBound ==
    \A m \in Depths :
        /\ \A a \in 1..Len(sq.nodes), b \in 1..Len(sq.nodes) :
              b \notin Within(EdgeSet(sq.edges), a, m)
                 => SqlPath(sq, plan, ById(a), ById(b), m) = Ret(<<>>)
        /\ \A a \in 1..Len(lt.nodes), b \in 1..Len(lt.nodes) :
              b \notin Within(EdgeSet(lt.edges), a, m)
                 => LitePath(lt, ById(a), ById(b), m) = Ret(<<>>)

---------------------------------------------------------------------------
(* C4.  Backend equivalence of traversal: after the same calls, neighbors  *)
(* returns the same set of nodes in both backends and path is empty in     *)
(* both or a route of the same length in both.                             *)

SameRoute(a, b) ==
    /\ a.ok /\ b.ok
    /\ Len(a.val) = Len(b.val)
    /\ IsRoute(EdgeSet(sq.edges), IdsSeq(a.val))
    /\ IsRoute(EdgeSet(lt.edges), IdsSeq(b.val))

C4_SameTraversal ==
    /\ \A ref \in StartRefs, d \in Depths, k \in Limits :
          Range(SqlNeighbors(sq, plan, ref, d, k).val)
              = Range(LiteNeighbors(lt, ref, d, k).val)
    /\ \A a \in IdRefs, b \in IdRefs, m \in Depths :
          SameRoute(SqlPath(sq, plan, a, b, m), LitePath(lt, a, b, m))

---------------------------------------------------------------------------
(* C1.  Node dedup: from every reachable state and for every label and     *)
(* type (an omitted type included), two upsertNode calls without id with   *)
(* the same (label, type) return the same id in both backends, and the     *)
(* node count grows over the two calls by 1 when the pair was new and by 0 *)
(* when a node already held it.                                            *)

\* an omitted type counts as the empty-string type
TypeOf(t) == Coalesce(t, EmptyStr)

HasPair(nodes, label, type) ==
    \E i \in 1..Len(nodes) : nodes[i].label = label /\ TypeOf(nodes[i].type) = TypeOf(type)

DedupOf(r1, r2, before, existed) ==
    /\ r1.ret.ok /\ r2.ret.ok
    /\ r2.ret.val = r1.ret.val
    /\ Len(r2.store.nodes) = before + (IF existed THEN 0 ELSE 1)

C1_NodeDedup ==
    \A lb \in Labels, t \in Types :
        LET n == [id |-> 0, label |-> lb, type |-> t, props |-> Undef]
        IN /\ DedupOf(SqlUpsertNode(sq, n),
                      SqlUpsertNode(SqlUpsertNode(sq, n).store, n),
                      Len(sq.nodes), HasPair(sq.nodes, lb, t))
           /\ DedupOf(LiteUpsertNode(lt, n),
                      LiteUpsertNode(LiteUpsertNode(lt, n).store, n),
                      Len(lt.nodes), HasPair(lt.nodes, lb, t))

---------------------------------------------------------------------------
(* C2.  Node uniqueness: in every reachable state of both backends no two  *)
(* distinct nodes hold the same (label, type), an omitted type counting as *)
(* the empty-string type.                                                  *)

UniquePairs(nodes) ==
    \A i, j \in 1..Len(nodes) :
        (i # j /\ nodes[i].label = nodes[j].label)
            => TypeOf(nodes[i].type) # TypeOf(nodes[j].type)

C2_NodeUnique == UniquePairs(lt.nodes) /\ UniquePairs(sq.nodes)

---------------------------------------------------------------------------
(* C3.  Edge dedup, as claimed: for every (src, dst, type) a second        *)
(* addEdge with the same triple returns the id the first returned, the     *)
(* edge count grows by exactly 1 over the two calls, and no two stored     *)
(* edges share (src, dst, type), an omitted type being the empty type.     *)

\* the (src, dst, type) of the stored edges, as a sequence
SqlTriples(s) == [i \in 1..Len(s.edges) |-> <<s.edges[i].src, s.edges[i].dst, s.edges[i].type>>]

LiteTriples(l) ==
    [i \in 1..Len(l.edges) |-> <<l.edges[i].src, l.edges[i].dst, TypeOf(l.edges[i].type)>>]

TripleOf(e) == <<e.src, e.dst, TypeOf(e.type)>>

C3_AsClaimed ==
    /\ NoRepeat(SqlTriples(sq)) /\ NoRepeat(LiteTriples(lt))
    /\ \A e \in EdgeInputs :
          /\ LET r1 == SqlAddEdge(sq, e)
                 r2 == SqlAddEdge(r1.store, e)
             IN /\ r1.ret.ok /\ r2.ret = r1.ret
                /\ Len(r2.store.edges) = Len(sq.edges) + 1
          /\ LET r1 == LiteAddEdge(lt, e)
                 r2 == LiteAddEdge(r1.store, e)
             IN /\ r1.ret.ok /\ r2.ret = r1.ret
                /\ Len(r2.store.edges) = Len(lt.edges) + 1

(* C3, amended.  A second addEdge with the same triple returns the id the  *)
(* first returned whenever the first returned; the persistent backend      *)
(* raises both times and stores nothing when src or dst is no existing     *)
(* node.  Over the two calls the edge count grows by 1 when the triple was *)
(* not stored before and by 0 when it was, and in every reachable state no *)
(* two stored edges share (src, dst, type).                                *)

EdgeDedupOf(r1, r2, before, stored) ==
    /\ r2.ret = r1.ret
    /\ Len(r1.store.edges) = before + (IF stored \/ ~r1.ret.ok THEN 0 ELSE 1)
    /\ Len(r2.store.edges) = Len(r1.store.edges)
    /\ r1.ret.ok => \E i \in 1..Len(r2.store.edges) : r2.store.edges[i].id = r1.ret.val

C3_EdgeDedup ==
    /\ NoRepeat(SqlTriples(sq)) /\ NoRepeat(LiteTriples(lt))
    /\ \A e \in EdgeInputs :
          /\ LET r1 == SqlAddEdge(sq, e)
                 r2 == SqlAddEdge(r1.store, e)
             IN /\ EdgeDedupOf(r1, r2, Len(sq.edges), TripleOf(e) \in Range(SqlTriples(sq)))
                /\ r1.ret.ok <=> {e.src, e.dst} \subseteq 1..Len(sq.nodes)
                /\ ~r1.ret.ok => r1.store = sq
          /\ LET r1 == LiteAddEdge(lt, e)
                 r2 == LiteAddEdge(r1.store, e)
             IN /\ EdgeDedupOf(r1, r2, Len(lt.edges), TripleOf(e) \in Range(LiteTriples(lt)))
                /\ r1.ret.ok

\* both backends hold an edge that was added twice, once with the type
\* omitted and once with the empty type
C3_Witness ==
    /\ last = "addEdge"
    /\ Len(sq.edges) = 1 /\ Len(lt.edges) = 1
    /\ sq.eseq > Len(sq.edges)
    /\ lt.nextEdgeId = 2
    /\ LiteAddEdge(lt, [src |-> lt.edges[1].src, dst |-> lt.edges[1].dst,
                        type |-> Some(EmptyStr)]).ret = Ret(lt.edges[1].id)
    /\ LiteAddEdge(lt, [src |-> lt.edges[1].src, dst |-> lt.edges[1].dst,
                        type |-> Undef]).ret = Ret(lt.edges[1].id)

---------------------------------------------------------------------------
(* C10.  Idempotent import: for every list of records, importing it a      *)
(* second time leaves stats() (nodes, edges) equal to its value after the  *)
(* first import, in both backends, from every reachable state.             *)

C10_ImportIdempotent ==
    \A notes \in NoteLists :
        /\ LET a == SqlImportFromNotes(sq, notes)
               b == SqlImportFromNotes(a.store, notes)
           IN a.ret.ok /\ b.ret.ok /\ SqlStats(b.store) = SqlStats(a.store)
        /\ LET a == LiteImportFromNotes(lt, notes)
               b == LiteImportFromNotes(a.store, notes)
           IN a.ret.ok /\ b.ret.ok /\ LiteStats(b.store) = LiteStats(a.store)

\* an import has just run on top of rewritten nodes, it stored edges in
\* both backends, and some record list with tags is new to the store
C10_Witness ==
    /\ last = "importFromNotes"
    /\ Len(sq.edges) >= 2 /\ Len(lt.edges) >= 2
    /\ sq.eseq > Len(sq.edges)
    /\ \E i \in 1..Len(lt.nodes) :
          IndexGet(lt, keyFor(lt.nodes[i].label, lt.nodes[i].type)) # i
    /\ \E notes \in NoteLists :
          /\ SqlStats(SqlImportFromNotes(sq, notes).store) # SqlStats(sq)
          /\ LiteStats(LiteImportFromNotes(lt, notes).store) # LiteStats(lt)

---------------------------------------------------------------------------
(* Imports alone, from the empty store.  Records come with one of two     *)
(* keys (one of them reads like the id 1), two timestamps of one day, and  *)
(* up to two distinct tags.                                                *)

KeyOne == <<"1">>

DateB == Day \o <<"T", "2">>

TagY == <<"y">>

MetaB == [a |-> 2]

\* records without metadata, and one record with either of two metadata
WideNoteInputs ==
    {[id |-> i, key |-> k, created_at |-> c, tags |-> t, metadata |-> Undef] :
        i \in {Undef, Some(1)},
        k \in {KeyK, KeyOne},
        c \in {Undef, Some(DateA), Some(DateB)},
        t \in {Undef, Some(<<TagX>>), Some(<<TagX, TagX>>), Some(<<TagX, TagY>>)}}
    \cup {[id |-> Some(1), key |-> KeyK, created_at |-> Some(DateA),
           tags |-> Some(<<TagX>>), metadata |-> m] : m \in {Some(MetaA), Some(MetaB)}}

WideNoteLists == UNION {[1..k -> WideNoteInputs] : k \in 0..MaxRecords}

OnlyNoteInputs ==
    {n \in WideNoteInputs :
        /\ n.key = KeyK
        /\ n.created_at # Some(DateB)
        /\ n.tags # Some(<<TagX, TagX>>)}

OnlyNoteLists == UNION {[1..k -> OnlyNoteInputs] : k \in 0..MaxRecords}

FitsOnly ==
    /\ Len(sq'.nodes) <= MaxOnlyNodes /\ Len(lt'.nodes) <= MaxOnlyNodes
    /\ Len(sq'.edges) <= MaxOnlyEdges /\ Len(lt'.edges) <= MaxOnlyEdges
    /\ sq'.eseq <= MaxOnlySeq

NextImportOnly == \E notes \in OnlyNoteLists : ImportFromNotes(notes) /\ FitsOnly

SpecImportOnly == InitImport /\ [][NextImportOnly]_vars

---------------------------------------------------------------------------
(* C11.  Import result on an empty store: importFromNotes(records) leaves  *)
(* one note node per distinct (id, or key when there is no id; first 10    *)
(* characters of the creation date), one key node per distinct key, one    *)
(* tag node per distinct tag, one has_key edge per distinct (note, key)    *)
(* pair and one has_tag edge per distinct (note, tag) pair, in both        *)
(* backends; one record with 2 distinct tags gives 4 nodes and 3 edges.    *)

TagsOf(n) == Range(Coalesce(n.tags, <<>>))

\* what tells two note nodes apart, read off the record
NoteIdent(n) ==
    LET d == Coalesce(n.created_at, EmptyStr)
    IN <<IF n.id.has THEN NumStr(n.id.v) ELSE n.key,
         IF Len(d) <= 10 THEN d ELSE SubSeq(d, 1, 10)>>

ExpectedStats(notes) ==
    LET N == Range(notes)
    IN [nodes |-> Cardinality({NoteIdent(n) : n \in N})
                    + Cardinality({n.key : n \in N})
                    + Cardinality(UNION {TagsOf(n) : n \in N}),
        edges |-> Cardinality({<<NoteIdent(n), n.key>> : n \in N})
                    + Cardinality(UNION {{<<NoteIdent(n), t>> : t \in TagsOf(n)} : n \in N})]

C11_ImportCounts ==
    (sq = SqlEmpty /\ lt = LiteEmpty) =>
        \A notes \in WideNoteLists :
            LET a == SqlImportFromNotes(sq, notes)
                b == LiteImportFromNotes(lt, notes)
            IN /\ a.ret = Ret(ExpectedStats(notes))
               /\ b.ret = Ret(ExpectedStats(notes))
               /\ SqlStats(a.store) = ExpectedStats(notes)
               /\ LiteStats(b.store) = ExpectedStats(notes)
               /\ (Len(notes) = 1 /\ Cardinality(TagsOf(notes[1])) = 2)
                      => ExpectedStats(notes) = [nodes |-> 4, edges |-> 3]

\* one record with two distinct tags was imported into the empty store
C11_Witness ==
    /\ last = "importFromNotes"
    /\ SqlStats(sq) = [nodes |-> 4, edges |-> 3] /\ sq.eseq = 3
    /\ LiteStats(lt) = [nodes |-> 4, edges |-> 3]
    /\ Len(sq.nodes[1].props.tags) = 2
    /\ \E notes \in OnlyNoteLists :
          /\ Len(notes) = 1
          /\ SqlImportFromNotes(SqlEmpty, notes).store = sq
          /\ LiteImportFromNotes(LiteEmpty, notes).store = lt

---------------------------------------------------------------------------
(* C12.  upsertNode with an id that matches no existing node raises in     *)
(* both backends and leaves the store as it was: no node is created, no    *)
(* label, type or props changes, stats() stays.                            *)

C12_UnknownIdRaises ==
    \A node \in NodeInputs :
        node.id # 0 =>
            /\ node.id \notin 1..Len(sq.nodes)
                  => SqlUpsertNode(sq, node) = [store |-> sq, ret |-> Raise]
            /\ node.id \notin 1..Len(lt.nodes)
                  => LiteUpsertNode(lt, node) = [store |-> lt, ret |-> Raise]

\* a call was made and both stores are still empty: the call named an id
C12_Witness ==
    /\ last = "upsertNode"
    /\ sq = SqlEmpty /\ lt = LiteEmpty
    /\ \E node \in NodeInputs : node.id # 0 /\ ~SqlUpsertNode(sq, node).ret.ok

---------------------------------------------------------------------------
(* Node calls that carry props *)

PropsX == [x |-> 1]

PropsX2 == [x |-> 2]

PropsY == [y |-> 2]

PropsInputs == {Undef, Some(PropsX), Some(PropsX2), Some(PropsY)}

PropNodeInputs ==
    {[id |-> i, label |-> lb, type |-> Some(TypeT), props |-> p] :
        i \in 0..1, lb \in Labels, p \in PropsInputs}

NextProps == \E node \in PropNodeInputs : UpsertNode(node) /\ Fits(MaxNodes, 0)

SpecProps == Init /\ [][NextProps]_vars

---------------------------------------------------------------------------
(* C13.  Props merge on dedup: an upsertNode without id for a (label,      *)
(* type) that already exists returns the existing id and leaves that node  *)
(* with the previous props merged with the supplied ones (supplied keys    *)
(* take the supplied value, all other keys keep theirs), in both backends, *)
(* also when the call supplies no props.                                   *)

MergeProps(old, new) ==
    [k \in DOMAIN old \cup DOMAIN new |-> IF k \in DOMAIN new THEN new[k] ELSE old[k]]

SameProps(p, q) == DOMAIN p = DOMAIN q /\ \A k \in DOMAIN p : p[k] = q[k]

C13_PropsMerge ==
    \A node \in PropNodeInputs :
        node.id = 0 =>
            /\ LET e == SqlGetNodeByLabel(sq, node.label, node.type)
                   r == SqlUpsertNode(sq, node)
               IN e.has =>
                     /\ r.ret = Ret(e.v.id)
                     /\ SameProps(r.store.nodes[e.v.id].props,
                                  MergeProps(e.v.props, Coalesce(node.props, NoProps)))
            /\ LET e == LiteGetNodeByLabel(lt, node.label, node.type)
                   r == LiteUpsertNode(lt, node)
               IN e.has =>
                     /\ r.ret = Ret(e.v.id)
                     /\ SameProps(r.store.nodes[e.v.id].props,
                                  MergeProps(e.v.props, Coalesce(node.props, NoProps)))

---------------------------------------------------------------------------
(* importFromNotes of the persistent backend, record by record.  The loop  *)
(* runs inside db.transaction: BEGIN, one record after the other, COMMIT.  *)
(* The process can stop and a step can raise at any point in between; the  *)
(* transaction is then rolled back.  Once a transaction is over, tx keeps  *)
(* the records it left unprocessed.                                        *)

\* the store other readers see while a transaction has written `work`
Autocommit(committed, work) == work

InTransaction(committed, work) == committed

BeginImport(notes) ==
    /\ ~tx.active
    /\ tx' = [active |-> TRUE, work |-> sq, notes |-> notes, rest |-> notes]
    /\ last' = "begin"
    /\ UNCHANGED <<sq, lt, plan, run, up>>

ImportRecord ==
    /\ tx.active /\ tx.rest # <<>>
    /\ LET r == SqlImportNotes(tx.work, <<Head(tx.rest)>>)
       IN /\ r.ret.ok
          /\ tx' = [tx EXCEPT !.work = r.store, !.rest = Tail(tx.rest)]
          /\ sq' = InTransaction(sq, r.store)
    /\ last' = "record"
    /\ UNCHANGED <<lt, plan, run, up>>

CommitImport ==
    /\ tx.active /\ tx.rest = <<>>
    /\ sq' = tx.work
    /\ tx' = NoTx
    /\ last' = "importFromNotes"
    /\ UNCHANGED <<lt, plan, run, up>>

\* a raised error or the end of the process: ROLLBACK
AbortImport ==
    /\ tx.active
    /\ tx' = [NoTx EXCEPT !.notes = tx.notes, !.rest = tx.rest]
    /\ last' = "abort"
    /\ UNCHANGED <<sq, lt, plan, run, up>>

FitsTx ==
    /\ Len(tx'.work.nodes) <= MaxTxNodes
    /\ Len(tx'.work.edges) <= MaxTxEdges
    /\ tx'.work.eseq <= MaxTxSeq

NextTx ==
    \/ \E notes \in NoteLists : BeginImport(notes)
    \/ ImportRecord /\ FitsTx
    \/ CommitImport
    \/ AbortImport

SpecTx == InitImport /\ [][NextTx]_vars

---------------------------------------------------------------------------
(* C14.  Atomic import in the persistent backend: while an import is under *)
(* way the stored graph stays what it was before the call; it changes only *)
(* when the whole batch is done, to the graph of the whole batch, and an   *)
(* import that stops after some but not all records leaves it unchanged.   *)

C14_AtomicImport ==
    [][tx.active =>
          \/ sq' = sq
          \/ /\ tx.rest = <<>> /\ ~tx'.active
             /\ sq' = SqlImportFromNotes(sq, tx.notes).store]_vars

\* an import of two records stopped after the first, which had added nodes
C14_Witness ==
    /\ last = "abort"
    /\ Len(tx.notes) = 2 /\ Len(tx.rest) = 1
    /\ SqlImportNotes(sq, <<tx.notes[1]>>).store.nodes # sq.nodes

---------------------------------------------------------------------------
(* Opening the persistent store again between node calls *)

Reopen ==
    /\ sq' = migrate(sq).store
    /\ last' = "open"
    /\ UNCHANGED <<lt, plan, tx, run, up>>

OpenNodeInputs ==
    {[id |-> 0, label |-> lb, type |-> t, props |-> Undef] : lb \in Labels, t \in Types}

NextOpen ==
    \/ \E node \in OpenNodeInputs : UpsertNode(node) /\ Fits(MaxNodes + 1, 0)
    \/ Reopen

SpecOpen == Init /\ [][NextOpen]_vars

---------------------------------------------------------------------------
(* C15.  Idempotent schema setup: opening the persistent backend on a      *)
(* store that was initialised and then populated raises no error and       *)
(* leaves the id, label, type and props of every node and every edge       *)
(* unchanged (an omitted type counting as the empty type).                 *)

C15_ReopenNoOp ==
    LET r == migrate(sq)
    IN /\ r.ret.ok
       /\ r.store.edges = sq.edges
       /\ Len(r.store.nodes) = Len(sq.nodes)
       /\ \A i \in 1..Len(sq.nodes) :
             /\ r.store.nodes[i].id = sq.nodes[i].id
             /\ r.store.nodes[i].label = sq.nodes[i].label
             /\ TypeOf(r.store.nodes[i].type) = TypeOf(sq.nodes[i].type)
             /\ r.store.nodes[i].props = sq.nodes[i].props

---------------------------------------------------------------------------
(* C16.  Read operations degrade to empty results, in every reachable      *)
(* state of either backend: neighbors returns the empty list and raises    *)
(* nothing when its start reference resolves to no existing node, path     *)
(* returns the empty list when either endpoint resolves to no existing     *)
(* node, and getNodeByLabel returns absent on a miss.                      *)

\* the reference names a node the store holds
Resolves(nodes, id) == id \in 1..Len(nodes)

C16_ReadsDegrade ==
    /\ \A ref \in StartRefs, d \in Depths, k \in Limits :
          /\ ~Resolves(sq.nodes, resolveNodeId(sq, ref))
                => SqlNeighbors(sq, plan, ref, d, k) = Ret(<<>>)
          /\ ~Resolves(lt.nodes, LiteResolve(lt, ref))
                => LiteNeighbors(lt, ref, d, k) = Ret(<<>>)
    /\ \A a \in StartRefs, b \in StartRefs, m \in Depths :
          /\ (~Resolves(sq.nodes, resolveNodeId(sq, a))
                 \/ ~Resolves(sq.nodes, resolveNodeId(sq, b)))
                => SqlPath(sq, plan, a, b, m) = Ret(<<>>)
          /\ (~Resolves(lt.nodes, LiteResolve(lt, a))
                 \/ ~Resolves(lt.nodes, LiteResolve(lt, b)))
                => LitePath(lt, a, b, m) = Ret(<<>>)
    /\ \A lb \in GraphLabels, t \in Types :
          /\ ~HasPair(sq.nodes, lb, t) => SqlGetNodeByLabel(sq, lb, t) = Undef
          /\ ~HasPair(lt.nodes, lb, t) => LiteGetNodeByLabel(lt, lb, t) = Undef

---------------------------------------------------------------------------
(* C17.  Upsert/lookup round trip: after a successful upsertNode(n), with  *)
(* or without id, that returns id i, getNodeByLabel(n.label, n.type)       *)
(* returns the node with id i, in both backends; a node upserted with the  *)
(* type omitted is found by getNodeByLabel(label) with the type omitted.   *)

RoundTripOf(r, found) == r.ret.ok => (found.has /\ found.v.id = r.ret.val)

C17_RoundTrip ==
    \A node \in NodeInputs :
        /\ LET r == SqlUpsertNode(sq, node)
           IN RoundTripOf(r, SqlGetNodeByLabel(r.store, node.label, node.type))
        /\ LET r == LiteUpsertNode(lt, node)
           IN RoundTripOf(r, LiteGetNodeByLabel(r.store, node.label, node.type))

---------------------------------------------------------------------------
(* C18.  Shape of an imported graph: in every state reached from the empty *)
(* store by importFromNotes calls alone, in both backends, every edge has  *)
(* type has_key or has_tag, its src is the id of an existing note node and *)
(* its dst the id of an existing key node (has_key) or tag node (has_tag). *)

ShapeOf(nodes, src, dst, type) ==
    /\ type \in {StrHasKey, StrHasTag}
    /\ src \in 1..Len(nodes) /\ nodes[src].type = Some(StrNote)
    /\ dst \in 1..Len(nodes)
    /\ nodes[dst].type = Some(IF type = StrHasKey THEN StrKey ELSE StrTag)

C18_ImportShape ==
    /\ \A i \in 1..Len(sq.edges) :
          ShapeOf(sq.nodes, sq.edges[i].src, sq.edges[i].dst, sq.edges[i].type)
    /\ \A i \in 1..Len(lt.edges) :
          /\ lt.edges[i].type.has
          /\ ShapeOf(lt.nodes, lt.edges[i].src, lt.edges[i].dst, lt.edges[i].type.v)

\* two imports have stored two note nodes with key and tag edges
C18_Witness ==
    /\ last = "importFromNotes"
    /\ Cardinality({i \in 1..Len(lt.nodes) : lt.nodes[i].type = Some(StrNote)}) = 2
    /\ \E i, j \in 1..Len(lt.edges) :
          lt.edges[i].type = Some(StrHasKey) /\ lt.edges[j].type = Some(StrHasTag)
    /\ \E i, j \in 1..Len(sq.edges) :
          sq.edges[i].type = StrHasKey /\ sq.edges[j].type = StrHasTag
    /\ sq.eseq > Len(sq.edges)

---------------------------------------------------------------------------
(* C19.  addEdge with a src or dst that is not the id of an existing node: *)
(* the persistent backend raises and leaves the edges and stats() as they  *)
(* were, so every stored edge of the persistent backend joins existing     *)
(* nodes in every reachable state; the in-memory backend accepts the call  *)
(* and stores the edge.                                                    *)

C19_MissingEndpoint ==
    /\ \A i \in 1..Len(sq.edges) :
          {sq.edges[i].src, sq.edges[i].dst} \subseteq 1..Len(sq.nodes)
    /\ \A e \in EdgeInputs :
          /\ ~({e.src, e.dst} \subseteq 1..Len(sq.nodes))
                => SqlAddEdge(sq, e) = [store |-> sq, ret |-> Raise]
          /\ ~({e.src, e.dst} \subseteq 1..Len(lt.nodes))
                => LET r == LiteAddEdge(lt, e)
                   IN /\ r.ret.ok
                      /\ \E i \in 1..Len(r.store.edges) :
                            /\ r.store.edges[i].id = r.ret.val
                            /\ r.store.edges[i].src = e.src
                            /\ r.store.edges[i].dst = e.dst
                            /\ TypeOf(r.store.edges[i].type) = TypeOf(e.type)

\* the call made last named a missing node: the in-memory backend holds
\* the edge, the persistent backend holds none and drew no rowid
C19_Witness ==
    /\ last = "addEdge"
    /\ Len(lt.edges) = 1
    /\ ~({lt.edges[1].src, lt.edges[1].dst} \subseteq 1..Len(lt.nodes))
    /\ Len(lt.nodes) >= 1
    /\ sq.edges = <<>> /\ sq.eseq = 0

---------------------------------------------------------------------------
(* C20.  Frame of the dedup path: an upsertNode call without id never      *)
(* changes the id, label or type of any existing node, never changes the   *)
(* props of any node other than the one matching (label, type), and never  *)
(* changes any edge.                                                       *)

\* the nodes and edges of `after` differ from those of `before` at most in
\* the props of the nodes carrying (label, type)
DedupFrame(before, after, node) ==
    /\ Len(after.nodes) >= Len(before.nodes)
    /\ \A i \in 1..Len(before.nodes) :
          /\ after.nodes[i].id = before.nodes[i].id
          /\ after.nodes[i].label = before.nodes[i].label
          /\ after.nodes[i].type = before.nodes[i].type
          /\ \/ SameProps(after.nodes[i].props, before.nodes[i].props)
             \/ /\ before.nodes[i].label = node.label
                /\ TypeOf(before.nodes[i].type) = TypeOf(node.type)
    /\ after.edges = before.edges

C20_DedupFrame ==
    \A node \in PropNodeInputs :
        node.id = 0 =>
            /\ DedupFrame(sq, SqlUpsertNode(sq, node).store, node)
            /\ DedupFrame(lt, LiteUpsertNode(lt, node).store, node)

---------------------------------------------------------------------------
(* C21.  Exact-match lookup after relabelling: in every reachable state,   *)
(* id-qualified upsertNode calls that change a label included,             *)
(* getNodeByLabel(l, t) returns a node if and only if some stored node     *)
(* currently has label l and type t, and the node it returns currently has *)
(* label l and type t: no lookup succeeds through a former label.          *)

ExactLookupOf(found, nodes, label, type) ==
    /\ found.has <=> HasPair(nodes, label, type)
    /\ found.has => /\ found.v.label = label
                    /\ TypeOf(found.v.type) = TypeOf(type)

C21_ExactLookup ==
    \A lb \in Labels, t \in Types :
        /\ ExactLookupOf(SqlGetNodeByLabel(sq, lb, t), sq.nodes, lb, t)
        /\ ExactLookupOf(LiteGetNodeByLabel(lt, lb, t), lt.nodes, lb, t)

---------------------------------------------------------------------------
(* C22.  Backend equivalence of mutation results: after the same calls,    *)
(* every further upsertNode (with or without id or type), addEdge between  *)
(* existing nodes and importFromNotes returns the same id or count in both *)
(* backends or raises in both, and stats() and getNodeByLabel(label, type) *)
(* give equal results in both backends.                                    *)

C22_SameResults ==
    /\ \A node \in NodeInputs :
          SqlUpsertNode(sq, node).ret = LiteUpsertNode(lt, node).ret
    /\ \A edge \in EdgeInputs :
          ({edge.src, edge.dst} \subseteq (1..Len(sq.nodes)) \cap (1..Len(lt.nodes)))
             => SqlAddEdge(sq, edge).ret = LiteAddEdge(lt, edge).ret
    /\ \A n \in NoteInputs :
          SqlImportFromNotes(sq, <<n>>).ret = LiteImportFromNotes(lt, <<n>>).ret
    /\ SqlStats(sq) = LiteStats(lt)
    /\ \A lb \in Labels, t \in Types :
          SqlGetNodeByLabel(sq, lb, t) = LiteGetNodeByLabel(lt, lb, t)

---------------------------------------------------------------------------
(* Reference notion for the order claims: the first-discovered order over  *)
(* the stored edges in edge-insertion order, defined without the traversal *)
(* code.                                                                   *)

RECURSIVE Expand(_, _)
\* the dsts of the edges leaving the nodes of a layer, node after node, each
\* node's edges in insertion order
Expand(edges, layer) ==
    IF layer = <<>> THEN <<>>
    ELSE DstsOf(edges, Head(layer)) \o Expand(edges, Tail(layer))

RECURSIVE FirstNew(_, _)
\* the ids of seq not in seen, each at its first occurrence
FirstNew(seq, seen) ==
    IF seq = <<>> THEN <<>>
    ELSE IF Head(seq) \in seen THEN FirstNew(Tail(seq), seen)
    ELSE <<Head(seq)>> \o FirstNew(Tail(seq), seen \cup {Head(seq)})

RECURSIVE LayerOrder(_, _, _, _)
\* the layers 1 .. d after `layer`, one after the other
LayerOrder(edges, layer, seen, d) ==
    IF d = 0 \/ layer = <<>> THEN <<>>
    ELSE LET next == FirstNew(Expand(edges, layer), seen)
         IN next \o LayerOrder(edges, next, seen \cup Range(next), d - 1)

BfsOrder(edges, start, d) == LayerOrder(edges, <<start>>, {start}, d)

\* the ids of seq that name a stored node
Existing(nodes, seq) == SelectSeq(seq, LAMBDA id : id \in 1..Len(nodes))

---------------------------------------------------------------------------
(* C23.  Traversal order: the list neighbors returns is in first-          *)
(* discovered breadth-first order: hop distances from the start do not     *)
(* decrease along the list, and within a layer nodes come in the order got *)
(* by expanding the previous layer's nodes in their order and enumerating  *)
(* each one's outgoing edges in edge-insertion order.                      *)

OrderOf(r, nodes, edges, st, d, k) ==
    LET ids == IdsSeq(r.val)
        order == BfsOrder(edges, st, d)
    IN /\ r.ok
       /\ ids = Existing(nodes, SubSeq(order, 1, Min(k, Len(order))))
       /\ \A i \in 1..(Len(ids) - 1) :
             Dist(EdgeSet(edges), st, ids[i]) <= Dist(EdgeSet(edges), st, ids[i + 1])

C23_TraversalOrder ==
    \A st \in GraphIds, d \in Depths, k \in Limits \ {0} :
        /\ OrderOf(SqlNeighbors(sq, plan, ById(st), d, k), sq.nodes, sq.edges, st, d, k)
        /\ OrderOf(LiteNeighbors(lt, ById(st), d, k), lt.nodes, lt.edges, st, d, k)

---------------------------------------------------------------------------
(* C24.  Early exit on limit: for limit k >= 1, neighbors(start, d, k) is  *)
(* the first min(k, n) elements of the list of length n that               *)
(* neighbors(start, d, limit) returns for a limit no graph reaches, and    *)
(* the traversal visits no node after the k-th one it collects.            *)

Prefix(seq, k) == SubSeq(seq, 1, Min(k, Len(seq)))

Collect(k) == [kind |-> "collect", limit |-> k]

C24_EarlyExit ==
    \A st \in GraphIds, d \in Depths, k \in Limits \ {0} :
        /\ SqlNeighbors(sq, plan, ById(st), d, k).val
              = Prefix(SqlNeighbors(sq, plan, ById(st), d, DefaultLimit).val, k)
        /\ bfsTraverse(sq, plan, st, d, Collect(k)).collected
              = Prefix(bfsTraverse(sq, plan, st, d, Collect(DefaultLimit)).collected, k)
        /\ LiteNeighbors(lt, ById(st), d, k).val
              = Prefix(LiteNeighbors(lt, ById(st), d, DefaultLimit).val, k)
        /\ bfsLiteTraverse(lt, st, d, Collect(k)).collected
              = Prefix(bfsLiteTraverse(lt, st, d, Collect(DefaultLimit)).collected, k)

---------------------------------------------------------------------------
(* Graphs around a few nodes, with edge calls that name ids beyond the     *)
(* stored nodes: the persistent backend rejects them, the in-memory        *)
(* backend stores them.                                                    *)

WideIds == 1..(MaxGraphNodes + 1)

WideEdgeInputs ==
    {[src |-> a, dst |-> b, type |-> Undef] : a \in 1..(MaxGraphNodes - 1), b \in WideIds}

InitWide ==
    /\ \E k \in 1..(MaxGraphNodes - 1) : sq = SqlWithNodes(k) /\ lt = LiteWithNodes(k)
    /\ plan \in {"covering", "rowid"}
    /\ last = "new"
    /\ tx = NoTx
    /\ run = NoRun
    /\ up = NoCalls

NextWide == \E edge \in WideEdgeInputs : AddEdge(edge) /\ Fits(MaxGraphNodes, MaxEdges)

SpecWide == InitWide /\ [][NextWide]_vars

---------------------------------------------------------------------------
(* C25.  Completeness of neighbors: when fewer than limit existing nodes   *)
(* lie between 1 and d hops from an existing start node, neighbors(start,  *)
(* d, limit) returns every one of them: the set of returned nodes is the   *)
(* set of existing nodes at distance 1..d.                                 *)

Near(nodes, edges, st, d) == (Within(EdgeSet(edges), st, d) \ {st}) \cap (1..Len(nodes))

C25_Complete ==
    \A d \in Depths, k \in Limits :
        /\ \A st \in 1..Len(sq.nodes) :
              Cardinality(Near(sq.nodes, sq.edges, st, d)) < k
                 => IdsIn(SqlNeighbors(sq, plan, ById(st), d, k).val)
                       = Near(sq.nodes, sq.edges, st, d)
        /\ \A st \in 1..Len(lt.nodes) :
              Cardinality(Near(lt.nodes, lt.edges, st, d)) < k
                 => IdsIn(LiteNeighbors(lt, ById(st), d, k).val)
                       = Near(lt.nodes, lt.edges, st, d)

---------------------------------------------------------------------------
(* neighbors and path, statement by statement.  A call runs to its end     *)
(* before the store takes another call; run holds the locals of            *)
(* bfsTraverse / bfsLiteTraverse (visited, frontier, next, d, the position *)
(* i in the frontier), of the callback (collected, prev, found) and of the *)
(* predecessor walk (p, pathIds).  pushed lists the ids put on a frontier, *)
(* start first.                                                            *)

Find(to) == [kind |-> "find", to |-> to]

Reverse(s) == [i \in 1..Len(s) |-> s[Len(s) + 1 - i]]

RunVisitor(r) == IF r.op = "neighbors" THEN Collect(r.limit) ELSE Find(r.to)

RunNeighborIds(r, id) ==
    IF r.backend = "sq" THEN sqliteNeighborIds(sq, plan, id) ELSE liteNeighborIds(lt, id)

\* the traversal has returned: neighbors maps the collected ids to nodes,
\* path returns [] when the target was not found and walks prev otherwise
AfterTraverse(r) ==
    IF r.op = "neighbors"
    THEN [r EXCEPT !.pc = "done",
                   !.result = Ret(IF r.backend = "sq"
                                  THEN nodesByIds(sq, r.st.acc.collected)
                                  ELSE liteNodesByIds(lt, r.st.acc.collected))]
    ELSE IF ~r.st.acc.found THEN [r EXCEPT !.pc = "done", !.result = Ret(<<>>)]
    ELSE [r EXCEPT !.pc = "walk", !.p = Some(r.to), !.pathIds = <<>>]

\* the loop of bfsTraverse without the test d < depth
LoopTestUnbounded(r) ==
    IF Len(r.frontier) > 0
    THEN [r EXCEPT !.pc = "step", !.i = 1, !.st.next = <<>>]
    ELSE AfterTraverse(r)

\* for (let d = 0; d < depth && frontier.length; d++): the test of the loop
LoopTest(r) ==
    IF r.d < r.depth /\ Len(r.frontier) > 0
    THEN [r EXCEPT !.pc = "step", !.i = 1, !.st.next = <<>>]
    ELSE AfterTraverse(r)

\* const visited = new Set([startId]); let frontier = [startId];
EnterTraverse(r, startId) ==
    LoopTest([r EXCEPT !.frontier = <<startId>>, !.pushed = <<startId>>,
                       !.st = [visited |-> {startId}, next |-> <<>>,
                               acc |-> AccInit(startId), stop |-> FALSE]])

CallNeighbors(b, ref, depth, limit) ==
    /\ run.pc = "idle"
    /\ LET startId == IF b = "sq" THEN resolveNodeId(sq, ref) ELSE LiteResolve(lt, ref)
           r == [NoRun EXCEPT !.op = "neighbors", !.backend = b, !.from = startId,
                              !.depth = depth, !.limit = limit]
       IN run' = IF startId = 0 THEN [r EXCEPT !.pc = "done"]
                 ELSE EnterTraverse(r, startId)
    /\ last' = "neighbors"
    /\ UNCHANGED <<sq, lt, plan, tx, up>>

CallPath(b, from, to, maxDepth) ==
    /\ run.pc = "idle"
    /\ LET fromId == IF b = "sq" THEN resolveNodeId(sq, from) ELSE LiteResolve(lt, from)
           toId == IF b = "sq" THEN resolveNodeId(sq, to) ELSE LiteResolve(lt, to)
           r == [NoRun EXCEPT !.op = "path", !.backend = b, !.from = fromId,
                              !.to = toId, !.depth = maxDepth + 1]
       IN run' = IF fromId = 0 \/ toId = 0 THEN [r EXCEPT !.pc = "done"]
                 ELSE EnterTraverse(r, fromId)
    /\ last' = "path"
    /\ UNCHANGED <<sq, lt, plan, tx, up>>

\* one turn of `for (const id of ids)` in step: the neighbours of one
\* frontier node are read and visited
StepNode ==
    /\ run.pc = "step"
    /\ \E st1 \in {ScanNeigh(RunNeighborIds(run, run.frontier[run.i]), 1,
                             run.frontier[run.i], RunVisitor(run), run.st)} :
          \E r \in {[run EXCEPT !.st = st1,
                                !.pushed = @ \o SubSeq(st1.next, Len(run.st.next) + 1,
                                                       Len(st1.next))]} :
             run' = IF st1.stop THEN AfterTraverse(r)
                    ELSE IF run.i < Len(run.frontier) THEN [r EXCEPT !.i = @ + 1]
                    ELSE LoopTest([r EXCEPT !.frontier = st1.next, !.d = @ + 1])
    /\ UNCHANGED <<sq, lt, plan, last, tx, up>>

\* one turn of `while (p != null) { pathIds.push(p); p = prev.get(p)!; }`,
\* and behind the loop reverse() and the mapping of the ids to nodes
WalkStep ==
    /\ run.pc = "walk"
    /\ LET ids == Reverse(run.pathIds)
           prev == run.st.acc.prev
       IN run' =
            IF run.p.has
            THEN [run EXCEPT !.pathIds = Append(@, run.p.v),
                             !.p = IF run.p.v \in DOMAIN prev THEN prev[run.p.v]
                                   ELSE Undef]
            ELSE [run EXCEPT
                    !.pc = "done",
                    !.result =
                        IF run.backend = "lt" THEN Ret(liteNodesByIds(lt, ids))
                        ELSE IF \E i \in 1..Len(ids) : ids[i] \notin 1..Len(sq.nodes)
                             THEN Raise
                             ELSE Ret([i \in 1..Len(ids) |-> mapRow(sq.nodes[ids[i]])])]
    /\ UNCHANGED <<sq, lt, plan, last, tx, up>>

\* the call returns
Return ==
    /\ run.pc = "done"
    /\ run' = NoRun
    /\ UNCHANGED <<sq, lt, plan, last, tx, up>>

Backends == {"sq", "lt"}

\* a ring through all nodes and the edges back to n1, the loop on n1
\* included, and a way from n1 to the last node over the id 0, which only
\* the in-memory backend stores; an addEdge that repeats a stored edge
\* leaves the graph as it is and is left out
RingEdgeInputs ==
    {e \in GraphEdgeInputs : e.dst = (e.src % MaxGraphNodes) + 1 \/ e.dst = 1}
        \cup {[src |-> 1, dst |-> 0, type |-> Undef],
              [src |-> 0, dst |-> MaxGraphNodes, type |-> Undef]}

InitRun ==
    /\ \E k \in (MaxGraphNodes - 1)..MaxGraphNodes :
          sq = SqlWithNodes(k) /\ lt = LiteWithNodes(k)
    /\ plan \in {"covering", "rowid"}
    /\ last = "new"
    /\ tx = NoTx
    /\ run = NoRun
    /\ up = NoCalls

NextRun ==
    \/ \E edge \in RingEdgeInputs :
          /\ run.pc = "idle"
          /\ AddEdge(edge) /\ Fits(MaxGraphNodes, MaxEdges)
          /\ Len(lt'.edges) > Len(lt.edges)
    \/ \E b \in Backends, ref \in IdRefs, d \in Depths, k \in Limits :
          CallNeighbors(b, ref, d, k)
    \/ \E b \in Backends, a \in IdRefs, c \in IdRefs, m \in Depths :
          CallPath(b, a, c, m)
    \/ StepNode
    \/ WalkStep
    \/ Return

\* a call that has started runs on: nothing else runs in its thread
SpecRun == InitRun /\ [][NextRun]_vars /\ WF_vars(StepNode \/ WalkStep)

\* the call that has ended returned what the traversal operators compute
RunAgrees ==
    run.pc = "done" =>
        run.result =
            IF run.op = "neighbors"
            THEN IF run.backend = "sq"
                 THEN SqlNeighbors(sq, plan, ById(run.from), run.depth, run.limit)
                 ELSE LiteNeighbors(lt, ById(run.from), run.depth, run.limit)
            ELSE IF run.backend = "sq"
                 THEN SqlPath(sq, plan, ById(run.from), ById(run.to), run.depth - 1)
                 ELSE LitePath(lt, ById(run.from), ById(run.to), run.depth - 1)

---------------------------------------------------------------------------
(* C26.  Termination: on every graph, self-loops and directed cycles       *)
(* included, and for every depth, maxDepth and limit, a neighbors or path  *)
(* call that has started reaches its end; no id is put on a frontier twice *)
(* in one call, and the predecessor walk that rebuilds the path ends at    *)
(* the from node.                                                          *)

C26_Terminates ==
    /\ [](NoRepeat(run.pushed))
    /\ []((run.pc = "walk" /\ ~run.p.has)
             => (run.pathIds # <<>> /\ run.pathIds[Len(run.pathIds)] = run.from))
    /\ (run.pc \in {"step", "walk"}) ~> (run.pc = "done")

\* a path call has ended on a graph with a loop on n1 and the cycle
\* n1 -> n2 -> n1, with rounds to spare, after walking back from n2 to n1
C26_Witness ==
    /\ run.pc = "done" /\ run.op = "path" /\ run.backend = "sq"
    /\ {<<1, 1>>, <<1, 2>>, <<2, 1>>} \subseteq EdgeSet(sq.edges)
    /\ run.from = 1 /\ run.to = 2 /\ run.depth = MaxDepth + 1
    /\ run.pathIds = <<2, 1>>
    /\ run.result = Ret(<<mapRow(sq.nodes[1]), mapRow(sq.nodes[2])>>)

---------------------------------------------------------------------------
(* C27.  Zero-hop path: for every existing node A and every maxDepth >= 0, *)
(* path(A, A, maxDepth) returns the one-node route [A], whether or not A   *)
(* has outgoing edges or lies on a cycle, in both backends.                *)

C27_ZeroHop ==
    \A m \in Depths :
        /\ \A a \in 1..Len(sq.nodes) :
              SqlPath(sq, plan, ById(a), ById(a), m) = Ret(<<mapRow(sq.nodes[a])>>)
        /\ \A a \in 1..Len(lt.nodes) :
              LitePath(lt, ById(a), ById(a), m) = Ret(<<lt.nodes[a]>>)

---------------------------------------------------------------------------
(* C28.  Expansion bound of path: path runs at most maxDepth + 1           *)
(* breadth-first rounds, so every non-empty route it returns has at most   *)
(* maxDepth + 1 edges, and it returns a non-empty route whenever to is     *)
(* reachable from a different node from within maxDepth + 1 hops.          *)

\* the stored nodes and edges of the backend a call runs on
RunNodes == IF run.backend = "sq" THEN sq.nodes ELSE lt.nodes

RunEdges == IF run.backend = "sq" THEN sq.edges ELSE lt.edges

C28_ExpansionBound ==
    run.op = "path" =>
        /\ run.d <= run.depth
        /\ run.pc = "step" => run.d < run.depth
        /\ run.pc = "done" =>
              /\ run.result.ok
              /\ Len(run.result.val) > 0 => Len(run.result.val) - 1 <= run.depth
              /\ (/\ run.from # run.to
                  /\ {run.from, run.to} \subseteq 1..Len(RunNodes)
                  /\ run.to \in Within(EdgeSet(RunEdges), run.from, run.depth))
                 => Len(run.result.val) > 0

\* path(1, 3, 1) has ended on the chain n1 -> n2 -> n3 without a shorter
\* way: the route has maxDepth + 1 edges, found in the last round
C28_Witness ==
    /\ run.pc = "done" /\ run.op = "path" /\ run.backend = "lt"
    /\ run.from = 1 /\ run.to = 3 /\ run.depth = 2
    /\ {<<1, 2>>, <<2, 3>>} \subseteq EdgeSet(lt.edges)
    /\ <<1, 3>> \notin EdgeSet(lt.edges)
    /\ IdsSeq(run.result.val) = <<1, 2, 3>>

---------------------------------------------------------------------------
(* C29.  Identity assignment in the in-memory backend: every node id and   *)
(* edge id handed out is a positive integer; the ids of newly created      *)
(* nodes, and of newly created edges, grow strictly in creation order and  *)
(* are never used again; no operation changes the id of an existing node   *)
(* or edge; and the node stored under id i carries the id field i.         *)

\* ids grow strictly along a list kept in creation order, below the counter
Increasing(items, counter) ==
    /\ \A i \in 1..Len(items) : items[i].id >= 1 /\ items[i].id < counter
    /\ \A i, j \in 1..Len(items) : i < j => items[i].id < items[j].id

\* the items of before are in after with their ids, what was added has ids
\* from the old counter on, and the counter has not gone back
IdsKept(before, after, counter, counterAfter) ==
    /\ Len(after) >= Len(before)
    /\ \A i \in 1..Len(before) : after[i].id = before[i].id
    /\ \A i \in (Len(before) + 1)..Len(after) : after[i].id >= counter
    /\ counterAfter >= counter

C29_LiteIdentity ==
    /\ [](/\ \A i \in 1..Len(lt.nodes) : lt.nodes[i].id = i
          /\ Increasing(lt.nodes, lt.nextNodeId)
          /\ Increasing(lt.edges, lt.nextEdgeId)
          /\ \A node \in RelabelInputs \cup NewNodeInputs :
                LiteUpsertNode(lt, node).ret.ok => LiteUpsertNode(lt, node).ret.val >= 1
          /\ \A edge \in EdgeInputs : LiteAddEdge(lt, edge).ret.val >= 1)
    /\ [][/\ IdsKept(lt.nodes, lt'.nodes, lt.nextNodeId, lt'.nextNodeId)
          /\ IdsKept(lt.edges, lt'.edges, lt.nextEdgeId, lt'.nextEdgeId)]_vars

\* an import has just added nodes and edges behind a node that an
\* id-qualified call had relabelled
C29_Witness ==
    /\ last = "importFromNotes"
    /\ Len(lt.nodes) >= 3 /\ Len(lt.edges) >= 2
    /\ lt.nodes[1].label = LabelA
    /\ lt.nextNodeId = Len(lt.nodes) + 1

---------------------------------------------------------------------------
(* Callers that share one persistent store (connections of different       *)
(* processes to the same file).  upsertNode without id is two statements,  *)
(* each atomic on its own: the SELECT of getNodeByLabel, then the UPDATE   *)
(* of the row found or the INSERT of a new row.  Another caller's          *)
(* statements can run in between.                                          *)

\* const existing = this.getNodeByLabel(node.label, node.type)
UpLookup(c, node) ==
    /\ up[c].pc = "idle"
    /\ LET e == SqlGetNodeByLabel(sq, node.label, node.type)
       IN up' = [up EXCEPT ![c] = [pc |-> "looked", node |-> node,
                                   existing |-> IF e.has THEN e.v.id ELSE 0,
                                   ret |-> Raise]]
    /\ last' = "lookup"
    /\ UNCHANGED <<sq, lt, plan, tx, run>>

\* if (existing) UPDATE ... SET props ... else INSERT INTO graph_nodes ...;
\* the INSERT fails on ux_graph_nodes_label_type and the call throws
UpWrite(c) ==
    /\ up[c].pc = "looked"
    /\ LET node == up[c].node
           props == Coalesce(node.props, NoProps)
           newId == Len(sq.nodes) + 1
       IN IF up[c].existing # 0
          THEN /\ sq' = [sq EXCEPT !.nodes[up[c].existing].props = props]
               /\ up' = [up EXCEPT ![c].pc = "done", ![c].ret = Ret(up[c].existing)]
          ELSE IF SqlNodeConflict(sq, 0, node.label, node.type)
          THEN /\ sq' = sq
               /\ up' = [up EXCEPT ![c].pc = "done", ![c].ret = Raise]
          ELSE /\ sq' = [sq EXCEPT !.nodes = Append(@,
                            [id |-> newId, label |-> node.label,
                             type |-> node.type, props |-> props])]
               /\ up' = [up EXCEPT ![c].pc = "done", ![c].ret = Ret(newId)]
    /\ last' = "write"
    /\ UNCHANGED <<lt, plan, tx, run>>

\* the call returns or throws
UpReturn(c) ==
    /\ up[c].pc = "done"
    /\ up' = [up EXCEPT ![c] = NoCall]
    /\ last' = "return"
    /\ UNCHANGED <<sq, lt, plan, tx, run>>

NextUp ==
    \/ \E c \in Callers, node \in OpenNodeInputs : UpLookup(c, node)
    \/ \E c \in Callers : UpWrite(c) /\ Fits(MaxNodes + 1, 0)
    \/ \E c \in Callers : UpReturn(c)

SpecUp == InitImport /\ [][NextUp]_vars

---------------------------------------------------------------------------
(* C30.  Concurrent upsert on one persistent store: when two callers       *)
(* interleave upsertNode without id for the same (label, type), the store  *)
(* never holds two nodes with that (label, type), and a call that has      *)
(* ended has raised a constraint error or returned the id of the node      *)
(* that holds its (label, type).                                           *)

C30_ConcurrentUpsert ==
    /\ UniquePairs(sq.nodes)
    /\ \A c \in Callers :
          (up[c].pc = "done" /\ up[c].ret.ok) =>
              /\ up[c].ret.val \in 1..Len(sq.nodes)
              /\ sq.nodes[up[c].ret.val].label = up[c].node.label
              /\ TypeOf(sq.nodes[up[c].ret.val].type) = TypeOf(up[c].node.type)

=============================================================================
